---- MODULE Spec2Model ----
(***************************************************************************)
(* Model of the tab pool of spider-crawl (PuppeteerController), of the     *)
(* callers that borrow pages from it, and of the breadth-first crawler     *)
(* (SpiderCrawl) that fetches pages through it.                            *)
(*                                                                         *)
(* JavaScript runs one task at a time: an action below is one stretch of   *)
(* code between two awaits.  A continuation that is already queued as a    *)
(* microtask (pc "afterInit") runs before any timer, event or I/O          *)
(* completion, which is what the guard NoMicrotask states.                 *)
(***************************************************************************)
EXTENDS Integers, Sequences, FiniteSets, TLC

\* ------------------------------------------------------------------ bounds
NumCallers == 2
NumPolls == 1
MaxPages == 2
MaxLaunches == 2
MaxTime == 1
MaxTabsBound == 2
MaxAgeBound == 0
MaxDepthOpt == 2
MaxPagesOpt == 2
MaxUrlLen == 6

Callers == 1..NumCallers
Polls == (NumCallers + 1)..(NumCallers + NumPolls)
Procs == Callers \cup Polls

\* page.url() of a page that browser.newPage() has just opened
BlankUrl == "about:blank"
\* the URL a caller navigates its page to
SiteUrl == "https://site/"

VARIABLES
  maxTabs,         \* config.maxTabs
  browser,         \* this.browser: 0 is null, else the engine's number
  isInitializing,  \* this.isInitializing (initializationPromise is non-null with it)
  tabs,            \* this.tabs: the Map, in insertion order, as a sequence of TabInfo
  pages,           \* every page ever opened, in creation order; "released" is
                   \* history: the caller it was last lent to has released it
  alive,           \* the engines that are running
  launched,        \* number of puppeteer.launch() calls made so far that have not
                   \* failed: the engines started, the launch in flight included
  inFlight,        \* number of puppeteer.launch() calls not yet settled
  proc,            \* the getTab() calls: the callers' and the polling attempts'
  cu,              \* the cleanupOldTabs() call in progress
  cl,              \* the close() call in progress: 0, or the engine it is closing
  acquired,        \* history: getTab() has been called at least once
  closed           \* history: a close() call has run to its end

vars == <<maxTabs, browser, isInitializing, tabs, pages, alive, launched,
          inFlight, proc, cu, cl, acquired, closed>>

VARIABLES
  visitedUrls,     \* this.visitedUrls
  linkMap,         \* this.linkMap: the Map, in insertion order, as a sequence
                   \* of [key, links]
  queue,           \* this.queue
  crawl,           \* the crawl() call: its arguments, the locals of
                   \* processQueue, and the result it returned
  fetches          \* the processUrl calls of the run that went on to
                   \* webCrawl.crawl, in dispatch order, with their batch

VARIABLES
  crawl2,          \* a second crawl() call of the same crawler, made while the
                   \* first is in flight: its arguments, locals and result
  fetches2,        \* the processUrl calls of the second call
  norm,            \* a normalizeUrl call: its argument and what it returned
  view,            \* what the last query of the crawler returned
  web              \* the WebCrawl.crawl call of each caller: its url, the page it
                   \* got, the pages it passed to releaseTab, and its result

\* what the single-run specifications leave alone
xvars == <<crawl2, fetches2, norm, view, web>>

\* the crawler's own state
cvars == <<visitedUrls, linkMap, queue, crawl, fetches, crawl2, fetches2, norm, view>>

svars == <<cvars, web>>

allvars == <<vars, svars>>

\* ------------------------------------------------------------- URL strings
\* A string is a sequence of tokens, each standing for a run of characters.
Scheme == "https://"
Slash == "/"
Hash == "#"
Hosts == {"a.com", "b.org"}

UrlRoot == <<Scheme, "a.com">>
UrlP == <<Scheme, "a.com", Slash, "p">>
UrlPDup == <<Scheme, "a.com", Slash, Slash, "p", Hash, "f">>
UrlQ == <<Scheme, "a.com", Slash, "q">>
UrlPdf == <<Scheme, "a.com", Slash, "q", ".pdf">>
UrlOther == <<Scheme, "b.org", Slash, "p">>
UrlBad == <<"not a url">>

\* new URL(s) does not throw
Parses(s) ==
  /\ Len(s) >= 2
  /\ s[1] = Scheme
  /\ s[2] \in Hosts
  /\ Len(s) >= 3 => s[3] \in {Slash, Hash}

\* new URL(s).hostname
Hostname(s) == s[2]

\* s.includes(pattern), for a pattern of one token
Includes(s, pattern) == \E i \in 1..Len(s) : s[i] = pattern

\* normalizeUrl without "urlObj.hash = ''"
HashPosKeepsFragment(s) == Len(s) + 1

\* the place of the fragment's "#", Len(s) + 1 when there is none
HashPos(s) ==
  IF Includes(s, Hash)
    THEN CHOOSE i \in 1..Len(s) : s[i] = Hash /\ \A j \in 1..(i - 1) : s[j] # Hash
    ELSE Len(s) + 1

\* pathname.replace(/\/+/g, '/')
RECURSIVE CollapseSlashes(_)
CollapseSlashes(path) ==
  IF Len(path) <= 1 THEN path
  ELSE IF path[1] = Slash /\ path[2] = Slash THEN CollapseSlashes(Tail(path))
  ELSE <<path[1]>> \o CollapseSlashes(Tail(path))

\* SpiderCrawl.normalizeUrl: the fragment goes, the path is collapsed (an
\* empty path serializes as "/"), and a string that does not parse is
\* returned as it is
normalizeUrl(url) ==
  IF Parses(url)
    THEN LET pathname == SubSeq(url, 3, HashPos(url) - 1)
         IN <<url[1], url[2]>>
              \o (IF pathname = <<>> THEN <<Slash>> ELSE CollapseSlashes(pathname))
    ELSE url

\* ------------------------------------------------------ the crawl options
DefaultMaxDepth == 3
DefaultMaxPages == 100
DefaultDelay == 1000

defaultOptions ==
  [maxDepth |-> DefaultMaxDepth,
   maxPages |-> DefaultMaxPages,
   sameDomain |-> TRUE,
   excludePatterns |-> <<"mailto:", "tel:", "javascript:", Hash, ".pdf", ".doc",
                         ".docx", ".xls", ".xlsx", ".zip", ".rar">>,
   includePatterns |-> <<>>,
   delay |-> DefaultDelay]

\* an options object with no property
NoOptions == [k \in {} |-> 0]

\* { ...defaults, ...options }
Spread(defaults, options) == options @@ defaults

\* a || b on numbers
OrElse(a, b) == IF a = 0 THEN b ELSE a

\* Map.has, Map.set and Map.size of this.linkMap
LinkMapHas(m, k) == \E i \in 1..Len(m) : m[i].key = k

\* this.linkMap.set(url, ...) of processUrl storing only the links that are
\* not documents
LinkMapSetFiltered(m, k, v) ==
  LET w == SelectSeq(v, LAMBDA link : \A j \in 1..Len(link.url) : link.url[j] # ".pdf")
  IN IF LinkMapHas(m, k)
       THEN [i \in 1..Len(m) |-> IF m[i].key = k THEN [key |-> k, links |-> w] ELSE m[i]]
       ELSE Append(m, [key |-> k, links |-> w])

LinkMapSet(m, k, v) ==
  IF LinkMapHas(m, k)
    THEN [i \in 1..Len(m) |-> IF m[i].key = k THEN [key |-> k, links |-> v] ELSE m[i]]
    ELSE Append(m, [key |-> k, links |-> v])

\* the crawl() call before it is made
CrawlIdle ==
  [pc |-> "idle", url |-> <<>>, given |-> NoOptions, baseUrl |-> <<>>,
   options |-> NoOptions, depth |-> 0, currentBatch |-> <<>>, result |-> NoOptions]

\* new Date(): clock readings are kept relative to the present, so the present
\* reads 0 and a reading taken n ticks ago reads -n
Now == 0

\* ------------------------------------------------------------- data helpers
Min(S) == CHOOSE i \in S : \A j \in S : i <= j

TabInfo(id, inUse, lastUsed) == [id |-> id, inUse |-> inUse, lastUsed |-> lastUsed]

\* Map.get / Map.has: the position of key k in the table, 0 when absent
TabsIndex(t, k) ==
  IF \E i \in 1..Len(t) : t[i].id = k
    THEN CHOOSE i \in 1..Len(t) : t[i].id = k
    ELSE 0

\* Map.set: a known key keeps its place and gets the new value
TabsSet(t, k, v) ==
  IF TabsIndex(t, k) # 0 THEN [t EXCEPT ![TabsIndex(t, k)] = v] ELSE Append(t, v)

\* Map.delete
TabsDelete(t, k) ==
  LET Keep(e) == e.id # k IN SelectSeq(t, Keep)

\* a live Map iterator that stands before position i, after key k was deleted
IterAfterDelete(t, k, i) ==
  IF TabsIndex(t, k) # 0 /\ TabsIndex(t, k) < i THEN i - 1 ELSE i

\* the page is open in an engine that is still running
PageAlive(p) == pages[p].open /\ pages[p].engine \in alive

\* browser.pages() of engine g
EnginePages(g) == {p \in 1..Len(pages) : pages[p].engine = g /\ PageAlive(p)}

\* pages.find(page => page.url() === key): the first match, 0 for undefined
FindPage(g, key) ==
  LET M == {p \in EnginePages(g) : pages[p].url = key}
  IN IF M = {} THEN 0 ELSE Min(M)

\* ----------------------------------------------------------- call records
IdleRec == [pc |-> "idle", held |-> 0, owner |-> 0, eng |-> 0, tkey |-> ""]
FreeRec == [pc |-> "free", held |-> 0, owner |-> 0, eng |-> 0, tkey |-> ""]

\* once x has settled, the polling attempts it started can no longer settle it
Orphan(P, x) ==
  [y \in Procs |-> IF P[y].owner = x THEN [P[y] EXCEPT !.owner = 0] ELSE P[y]]

\* the promise of call x resolves with page p.  For a polling attempt the
\* interval callback then does clearInterval and resolve(page) on its owner,
\* which has an effect only while the owner is still waiting.
RECURSIVE Resolve(_, _, _)
Resolve(P, x, p) ==
  IF x \in Callers
    THEN Orphan([P EXCEPT ![x] = [IdleRec EXCEPT !.pc = "holding", !.held = p]], x)
    ELSE LET o == P[x].owner
             P1 == Orphan([P EXCEPT ![x] = FreeRec], x)
         IN IF o = 0 THEN P1 ELSE Resolve(P1, o, p)

\* the promise of call x rejects with error e; a polling attempt's owner
\* swallows it and keeps waiting
Reject(P, x, e) ==
  IF x \in Callers
    THEN Orphan([P EXCEPT ![x] = IdleRec], x)
    ELSE Orphan([P EXCEPT ![x] = FreeRec], x)

NoMicrotask == \A x \in Procs : proc[x].pc # "afterInit"

CuOff == [pc |-> "off", idx |-> 0, key |-> "", page |-> 0, eng |-> 0, now0 |-> 0, maxAge |-> 0]

\* no call of the kind has been made yet
NoCall == [op |-> "none"]

\* a caller before its WebCrawl.crawl call: page is the local "page" (0 for
\* null), released the pages passed to releaseTab
WebIdle == [pc |-> "idle", url |-> <<>>, page |-> 0, released |-> <<>>, success |-> FALSE]

\* ------------------------------------------------------------------- Init
Init ==
  /\ maxTabs \in 1..MaxTabsBound
  /\ browser = 0
  /\ isInitializing = FALSE
  /\ tabs = <<>>
  /\ pages = <<>>
  /\ alive = {}
  /\ launched = 0
  /\ inFlight = 0
  /\ proc = [x \in Procs |-> IF x \in Callers THEN IdleRec ELSE FreeRec]
  /\ cu = CuOff
  /\ cl = 0
  /\ acquired = FALSE
  /\ closed = FALSE
  /\ visitedUrls = {}
  /\ linkMap = <<>>
  /\ queue = <<>>
  /\ crawl = CrawlIdle
  /\ fetches = <<>>
  /\ crawl2 = CrawlIdle
  /\ fetches2 = <<>>
  /\ norm = NoCall
  /\ view = NoCall
  /\ web = [c \in Callers |-> WebIdle]

\* --------------------------------------------------------------- getTab
\* createNewTab up to its first await: browser.newPage() is requested
CreateNewTabStart(P, x) ==
  IF browser = 0
    THEN Reject(P, x, "BrowserNotInitialized")
    ELSE [P EXCEPT ![x].pc = "awaitNewPage", ![x].eng = browser, ![x].tkey = ""]

\* the tab table's first entry that is not in use, 0 when there is none
FirstIdleTab ==
  LET I == {i \in 1..Len(tabs) : ~tabs[i].inUse}
  IN IF I = {} THEN 0 ELSE Min(I)

\* getTab after "await this.initialize()": lines 92-111
ScanTabs(P, x) ==
  IF browser = 0
    THEN /\ proc' = Reject(P, x, "BrowserNotInitialized")
         /\ UNCHANGED tabs
    ELSE IF FirstIdleTab # 0
      THEN /\ tabs' = [tabs EXCEPT ![FirstIdleTab].inUse = TRUE,
                                   ![FirstIdleTab].lastUsed = Now]
           /\ proc' = [P EXCEPT ![x].pc = "awaitPages", ![x].eng = browser,
                                ![x].tkey = tabs[FirstIdleTab].id]
      ELSE IF Len(tabs) < maxTabs
        THEN /\ proc' = CreateNewTabStart(P, x)
             /\ UNCHANGED tabs
        ELSE /\ proc' = [P EXCEPT ![x].pc = "waiting"]
             /\ UNCHANGED tabs

\* initialize() without the isInitializing guard of lines 32-34
MustLaunchUnguarded == browser = 0

\* initialize() decides to launch: no browser and no initialization in flight
MustLaunch == browser = 0 /\ ~isInitializing

\* getTab from its call to its first real suspension
StartGetTab(P, x) ==
  IF browser # 0
    THEN /\ ScanTabs(P, x)
         /\ UNCHANGED <<isInitializing, launched, inFlight>>
    ELSE IF MustLaunch
      THEN /\ launched <= MaxLaunches
           /\ isInitializing' = TRUE
           /\ launched' = launched + 1
           /\ inFlight' = inFlight + 1
           /\ proc' = [P EXCEPT ![x].pc = "awaitInit"]
           /\ UNCHANGED tabs
      ELSE /\ proc' = [P EXCEPT ![x].pc = "awaitInit"]
           /\ UNCHANGED <<tabs, isInitializing, launched, inFlight>>

\* a caller calls getTab()
GetTabCall(c) ==
  /\ NoMicrotask
  /\ proc[c].pc = "idle"
  /\ acquired' = TRUE
  /\ StartGetTab([proc EXCEPT ![c] = IdleRec], c)
  /\ UNCHANGED <<maxTabs, browser, pages, alive, cu, cl, closed>>

\* the calls suspended in "await this.initialize()"
Awaiters == {x \in Procs : proc[x].pc = "awaitInit"}

\* puppeteer.launch() resolves (a launch made after MaxLaunches engines were
\* started can only fail): _initializeBrowser sets this.browser, initialize()
\* clears the flag in its finally, and every awaiting getTab is queued to go on
LaunchOk ==
  /\ NoMicrotask
  /\ inFlight > 0
  /\ launched - inFlight + 1 <= MaxLaunches
  /\ browser' = launched - inFlight + 1
  /\ alive' = alive \cup {launched - inFlight + 1}
  /\ isInitializing' = FALSE
  /\ inFlight' = inFlight - 1
  /\ proc' = [x \in Procs |->
               IF x \in Awaiters THEN [proc[x] EXCEPT !.pc = "afterInit"] ELSE proc[x]]
  /\ UNCHANGED <<maxTabs, tabs, pages, launched, cu, cl, acquired, closed>>

\* puppeteer.launch() rejects: _initializeBrowser throws, initialize() clears
\* the flag in its finally and every awaiting getTab rejects; no engine was
\* started, so the launch does not count towards MaxLaunches
LaunchFail ==
  /\ NoMicrotask
  /\ inFlight > 0
  /\ isInitializing' = FALSE
  /\ inFlight' = inFlight - 1
  /\ launched' = launched - 1
  /\ proc' = [x \in Procs |->
               IF x \in Awaiters
                 THEN IF x \in Callers THEN IdleRec ELSE FreeRec
                 ELSE proc[x]]
  /\ UNCHANGED <<maxTabs, browser, tabs, pages, alive, cu, cl, acquired, closed>>

\* getTab goes on after "await this.initialize()"
AfterInit(x) ==
  /\ proc[x].pc = "afterInit"
  /\ ScanTabs(proc, x)
  /\ UNCHANGED <<maxTabs, browser, isInitializing, pages, alive, launched,
                 inFlight, cu, cl, acquired, closed>>

\* line 101: browser.pages() settles; the page whose url() equals tabInfo.url
\* is returned, and createNewTab() is called when there is none
PagesResolved(x) ==
  /\ NoMicrotask
  /\ proc[x].pc = "awaitPages"
  /\ IF proc[x].eng \in alive
       THEN IF FindPage(proc[x].eng, proc[x].tkey) # 0
              THEN /\ proc' = Resolve(proc, x, FindPage(proc[x].eng, proc[x].tkey))
                   /\ pages' = [pages EXCEPT
                                  ![FindPage(proc[x].eng, proc[x].tkey)].released = FALSE]
              ELSE /\ proc' = CreateNewTabStart(proc, x)
                   /\ UNCHANGED pages
       ELSE /\ \/ proc' = Reject(proc, x, "EngineError")
               \/ proc' = CreateNewTabStart(proc, x)
            /\ UNCHANGED pages
  /\ UNCHANGED <<maxTabs, browser, isInitializing, tabs, alive, launched,
                 inFlight, cu, cl, acquired, closed>>

\* line 125: browser.newPage() settles
NewPageResolved(x) ==
  /\ NoMicrotask
  /\ proc[x].pc = "awaitNewPage"
  /\ IF proc[x].eng \in alive /\ Len(pages) < MaxPages
       THEN /\ pages' = Append(pages, [engine |-> proc[x].eng, url |-> BlankUrl,
                                       open |-> TRUE, tabId |-> "",
                                       released |-> FALSE])
            /\ proc' = [proc EXCEPT ![x].pc = "configuring", ![x].held = Len(pages) + 1]
       ELSE /\ proc' = Reject(proc, x, "EngineError")
            /\ UNCHANGED pages
  /\ UNCHANGED <<maxTabs, browser, isInitializing, tabs, alive, launched,
                 inFlight, cu, cl, acquired, closed>>

\* lines 127-163: the page's settings are awaited, then the page is entered in
\* the tab table under its url() and returned
RegisterTab(x) ==
  /\ NoMicrotask
  /\ proc[x].pc = "configuring"
  /\ IF PageAlive(proc[x].held)
       THEN /\ tabs' = TabsSet(tabs, pages[proc[x].held].url,
                               TabInfo(pages[proc[x].held].url, TRUE, Now))
            /\ pages' = [pages EXCEPT ![proc[x].held].tabId = pages[proc[x].held].url]
            /\ proc' = Resolve(proc, x, proc[x].held)
       ELSE /\ proc' = Reject(proc, x, "EngineError")
            /\ UNCHANGED <<tabs, pages>>
  /\ UNCHANGED <<maxTabs, browser, isInitializing, alive, launched,
                 inFlight, cu, cl, acquired, closed>>

\* waitForAvailableTab: the interval of waiting call o fires and calls getTab()
IntervalTick(o, p) ==
  /\ NoMicrotask
  /\ proc[o].pc = "waiting"
  /\ proc[p].pc = "free"
  /\ StartGetTab([proc EXCEPT ![p] = [IdleRec EXCEPT !.owner = o]], p)
  /\ UNCHANGED <<maxTabs, browser, pages, alive, cu, cl, acquired, closed>>

\* waitForAvailableTab without its setTimeout
TimerNeverArmed(x) == FALSE

\* waitForAvailableTab arms a 30 s timer for every call that waits
TimerArmed(x) == proc[x].pc = "waiting"

\* waitForAvailableTab: the 30 s timer fires, clears the interval and rejects
WaitTimeout(x) ==
  /\ NoMicrotask
  /\ TimerArmed(x)
  /\ proc' = Reject(proc, x, "Timeout")
  /\ UNCHANGED <<maxTabs, browser, isInitializing, tabs, pages, alive, launched,
                 inFlight, cu, cl, acquired, closed>>

\* ------------------------------------------------------------ the callers
\* page.goto(url) commits: page.url() changes
Navigate(c) ==
  /\ NoMicrotask
  /\ proc[c].pc = "holding"
  /\ PageAlive(proc[c].held)
  /\ pages[proc[c].held].url = BlankUrl
  /\ pages' = [pages EXCEPT ![proc[c].held].url = SiteUrl]
  /\ UNCHANGED <<maxTabs, browser, isInitializing, tabs, alive, launched,
                 inFlight, proc, cu, cl, acquired, closed>>

\* releaseTab(page) as a function of the table
ReleasedTabs(t, p) ==
  IF TabsIndex(t, pages[p].url) # 0
    THEN [t EXCEPT ![TabsIndex(t, pages[p].url)].inUse = FALSE,
                   ![TabsIndex(t, pages[p].url)].lastUsed = Now]
    ELSE t

\* the caller's finally block: releaseTab(page)
ReleaseTab(c) ==
  /\ NoMicrotask
  /\ proc[c].pc = "holding"
  /\ tabs' = ReleasedTabs(tabs, proc[c].held)
  /\ pages' = [pages EXCEPT ![proc[c].held].released = TRUE]
  /\ proc' = [proc EXCEPT ![c] = IdleRec]
  /\ UNCHANGED <<maxTabs, browser, isInitializing, alive, launched,
                 inFlight, cu, cl, acquired, closed>>

\* ------------------------------------------------- disconnect and close
\* the live iterator of a running cleanupOldTabs after this.tabs.clear()
CuAfterClear == IF cu.pc = "off" THEN cu ELSE [cu EXCEPT !.idx = 1]

\* handleBrowserDisconnect without "this.browser = null"
DisconnectKeepsBrowser == <<browser, <<>>>>

\* handleBrowserDisconnect as a function of the state: <<browser, tabs>> after it
DisconnectEffect == <<0, <<>>>>

\* engine g dies unexpectedly; its 'disconnected' listener runs
\* handleBrowserDisconnect
HandleBrowserDisconnect(g) ==
  /\ NoMicrotask
  /\ g \in alive
  /\ alive' = alive \ {g}
  /\ browser' = DisconnectEffect[1]
  /\ tabs' = DisconnectEffect[2]
  /\ cu' = IF Len(DisconnectEffect[2]) = 0 THEN CuAfterClear ELSE cu
  /\ UNCHANGED <<maxTabs, isInitializing, pages, launched, inFlight, proc,
                 cl, acquired, closed>>

\* close() is called with a browser: browser.close() is requested
CloseStart ==
  /\ NoMicrotask
  /\ cl = 0
  /\ browser # 0
  /\ cl' = browser
  /\ UNCHANGED <<maxTabs, browser, isInitializing, tabs, pages, alive, launched,
                 inFlight, proc, cu, acquired, closed>>

\* the finally block of close() without "this.tabs.clear()"
CloseKeepsTabs == <<0, tabs>>

\* the finally block of close() as a function of the state: <<browser, tabs>>
CloseEffect == <<0, <<>>>>

\* browser.close() settles: the engine is gone, and the finally block runs
CloseFinish ==
  /\ NoMicrotask
  /\ cl # 0
  /\ alive' = alive \ {cl}
  /\ browser' = CloseEffect[1]
  /\ tabs' = CloseEffect[2]
  /\ cu' = IF Len(CloseEffect[2]) = 0 THEN CuAfterClear ELSE cu
  /\ cl' = 0
  /\ closed' = TRUE
  /\ UNCHANGED <<maxTabs, isInitializing, pages, launched, inFlight, proc,
                 acquired>>

\* ------------------------------------------------------- cleanupOldTabs
\* line 235: the entry is not in use and was last used more than maxAge ago
IsOldIdle(e, c) == ~e.inUse /\ (c.now0 - e.lastUsed) > c.maxAge

\* the loop of cleanupOldTabs from position c.idx of table t to its next
\* await (browser.pages() for an old idle entry) or to its end
CleanupAdvance(t, c) ==
  LET Q == {i \in c.idx..Len(t) : IsOldIdle(t[i], c)}
  IN IF Q = {}
       THEN CuOff
       ELSE [c EXCEPT !.pc = "awaitPages", !.idx = Min(Q) + 1, !.key = t[Min(Q)].id,
                      !.eng = browser, !.page = 0]

\* cleanupOldTabs(maxAgeMinutes) is called
CleanupStart(maxAge) ==
  /\ NoMicrotask
  /\ cu.pc = "off"
  /\ cu' = CleanupAdvance(tabs, [CuOff EXCEPT !.idx = 1, !.now0 = Now, !.maxAge = maxAge])
  /\ cu'.pc # "off"
  /\ UNCHANGED <<maxTabs, browser, isInitializing, tabs, pages, alive, launched,
                 inFlight, proc, cl, acquired, closed>>

\* lines 236-240: browser.pages() settles; the page found under the entry's
\* key is handed to closeTab, which deletes tabs[page.url()] and requests
\* page.close()
CleanupPagesResolved ==
  /\ NoMicrotask
  /\ cu.pc = "awaitPages"
  /\ IF cu.eng # 0 /\ cu.eng \notin alive
       THEN /\ cu' = CuOff
            /\ UNCHANGED tabs
       ELSE IF FindPage(cu.eng, cu.key) = 0
         THEN /\ cu' = CleanupAdvance(tabs, cu)
              /\ UNCHANGED tabs
         ELSE /\ tabs' = TabsDelete(tabs, pages[FindPage(cu.eng, cu.key)].url)
              /\ cu' = [cu EXCEPT !.pc = "awaitClose",
                                  !.page = FindPage(cu.eng, cu.key),
                                  !.idx = IterAfterDelete(tabs,
                                            pages[FindPage(cu.eng, cu.key)].url, cu.idx)]
  /\ UNCHANGED <<maxTabs, browser, isInitializing, pages, alive, launched,
                 inFlight, proc, cl, acquired, closed>>

\* lines 159-161 and 210: page.close() settles; the page's 'close' listener
\* deletes the key the page was registered under, and the loop goes on
CleanupCloseDone ==
  /\ NoMicrotask
  /\ cu.pc = "awaitClose"
  /\ IF PageAlive(cu.page)
       THEN /\ pages' = [pages EXCEPT ![cu.page].open = FALSE]
            /\ tabs' = IF pages[cu.page].tabId = ""
                         THEN tabs ELSE TabsDelete(tabs, pages[cu.page].tabId)
            /\ cu' = CleanupAdvance(tabs',
                       [cu EXCEPT !.idx = IF pages[cu.page].tabId = "" THEN cu.idx
                                  ELSE IterAfterDelete(tabs, pages[cu.page].tabId, cu.idx)])
       ELSE /\ cu' = CleanupAdvance(tabs, cu)
            /\ UNCHANGED <<tabs, pages>>
  /\ UNCHANGED <<maxTabs, browser, isInitializing, alive, launched,
                 inFlight, proc, cl, acquired, closed>>

\* time passes: every stored clock reading falls one tick further behind
Tick ==
  /\ NoMicrotask
  /\ tabs # <<>> \/ cu.pc # "off"
  /\ \A i \in 1..Len(tabs) : tabs[i].lastUsed > -MaxTime
  /\ cu.pc # "off" => cu.now0 > -MaxTime
  /\ tabs' = [i \in 1..Len(tabs) |-> [tabs[i] EXCEPT !.lastUsed = @ - 1]]
  /\ cu' = IF cu.pc = "off" THEN cu ELSE [cu EXCEPT !.now0 = @ - 1]
  /\ UNCHANGED <<maxTabs, browser, isInitializing, pages, alive, launched,
                 inFlight, proc, cl, acquired, closed>>

\* ------------------------------------------------------------------- Next
\* the pool as the program drives it: nothing in the repository calls
\* cleanupOldTabs, and without it no clock reading is ever compared
NextPool ==
  \/ (\E c \in Callers : GetTabCall(c)) /\ UNCHANGED svars
  \/ LaunchOk /\ UNCHANGED svars
  \/ LaunchFail /\ UNCHANGED svars
  \/ (\E x \in Procs : AfterInit(x)) /\ UNCHANGED svars
  \/ (\E x \in Procs : PagesResolved(x)) /\ UNCHANGED svars
  \/ (\E x \in Procs : NewPageResolved(x)) /\ UNCHANGED svars
  \/ (\E x \in Procs : RegisterTab(x)) /\ UNCHANGED svars
  \/ (\E o \in Procs : \E p \in Polls : IntervalTick(o, p)) /\ UNCHANGED svars
  \/ (\E x \in Procs : WaitTimeout(x)) /\ UNCHANGED svars
  \/ (\E c \in Callers : Navigate(c)) /\ UNCHANGED svars
  \/ (\E c \in Callers : ReleaseTab(c)) /\ UNCHANGED svars
  \/ (\E g \in 1..MaxLaunches : HandleBrowserDisconnect(g)) /\ UNCHANGED svars
  \/ CloseStart /\ UNCHANGED svars
  \/ CloseFinish /\ UNCHANGED svars

\* the pool with its whole public interface in use; the crawler stands still
Next ==
  \/ NextPool
  \/ (\E a \in 0..MaxAgeBound : CleanupStart(a)) /\ UNCHANGED svars
  \/ CleanupPagesResolved /\ UNCHANGED svars
  \/ CleanupCloseDone /\ UNCHANGED svars
  \/ Tick /\ UNCHANGED svars

Spec == Init /\ [][Next]_allvars

\* Every request made of the engine settles (puppeteer bounds each by a
\* timeout), a queued continuation runs, and an armed timer fires.
Fairness ==
  /\ WF_vars(LaunchOk \/ LaunchFail)
  /\ \A x \in Procs :
       /\ WF_vars(AfterInit(x))
       /\ WF_vars(PagesResolved(x))
       /\ WF_vars(NewPageResolved(x))
       /\ WF_vars(RegisterTab(x))
       /\ WF_vars(WaitTimeout(x))

FairSpec == Init /\ [][NextPool]_allvars /\ Fairness

\* a getTab() call of caller c is pending
Pending(c) == proc[c].pc \notin {"idle", "holding"}

LiveSessions == {p \in 1..Len(pages) : PageAlive(p)}

\* the sessions some caller holds
HeldSessions == {proc[c].held : c \in {d \in Callers : proc[d].pc = "holding"}}

\* C1: the number of sessions created and not yet destroyed never exceeds
\* the capacity maxTabs
C1_CapacityBound == Cardinality(LiveSessions) <= maxTabs

\* C2: no session is lent to two callers at the same time
C2_NoSharedSession ==
  \A c, d \in Callers :
    (c # d /\ proc[c].pc = "holding" /\ proc[d].pc = "holding")
      => proc[c].held # proc[d].held

\* the table entry of session p, under the key it was registered with, is
\* marked in use in table t
MarkedInUse(t, p) ==
  /\ TabsIndex(t, pages[p].tabId) # 0
  /\ t[TabsIndex(t, pages[p].tabId)].inUse

\* C3: once its caller calls release(session), the session is marked not
\* in use in the pool, wherever the page has navigated to
C3_ReleaseMarksIdle ==
  [][\A c \in Callers :
       (proc[c].pc = "holding" /\ proc'[c].pc = "idle")
         => ~MarkedInUse(tabs', proc[c].held)]_vars

\* C4: while capacity sessions are in use by callers, a further acquire()
\* returns no session
C4_NoAcquireBeyondCapacity ==
  [][\A c \in Callers :
       (proc[c].pc # "holding" /\ proc'[c].pc = "holding")
         => Cardinality(HeldSessions \cap LiveSessions) < maxTabs]_vars

\* the live sessions that were released by the caller they were lent to
\* and have not been lent again
ReleasedSessions ==
  {p \in LiveSessions : pages[p].released /\ pages[p].tabId # "" /\ p \notin HeldSessions}

\* no getTab() call other than caller c's is under way
NoOtherCall(c) ==
  \A x \in Procs \ {c} : proc[x].pc \in {"idle", "free", "holding"}

\* C6: with the pool saturated and a session released, the next acquire()
\* reuses a session: it neither creates one nor is made to wait
C6_ReleasedSessionIsReused ==
  [][\A c \in Callers :
       ( /\ proc[c].pc = "idle" /\ proc'[c].pc # "idle"
         /\ browser # 0
         /\ NoOtherCall(c)
         /\ LiveSessions \subseteq EnginePages(browser)
         /\ Cardinality(LiveSessions) = maxTabs
         /\ ReleasedSessions # {} )
       => (proc'[c].pc \notin {"awaitNewPage", "waiting"} /\ pages' = pages)]_vars

C8_SingleLaunch ==
  /\ launched > 0 => acquired
  /\ inFlight <= 1
  /\ Awaiters # {} => (inFlight = 1 /\ isInitializing)

\* two first callers await the one launch that was started
C8_Witness ==
  /\ Cardinality(Awaiters \cap Callers) >= 2
  /\ launched = 1
  /\ inFlight = 1

\* C9: an unexpected disconnect empties the session table and leaves the
\* pool uninitialized; an acquire() made in that state goes through a fresh
\* initialization, and a session is only ever returned from a running engine
C9_DisconnectResets ==
  [][/\ (alive' # alive /\ alive' \subseteq alive /\ cl' = cl)
          => (browser' = 0 /\ tabs' = <<>>)
     /\ \A c \in Callers :
          (proc[c].pc = "idle" /\ proc'[c].pc # "idle" /\ browser = 0)
            => (proc'[c].pc = "awaitInit" /\ isInitializing' /\ inFlight' >= 1)
     /\ \A c \in Callers :
          (proc[c].pc # "holding" /\ proc'[c].pc = "holding")
            => pages'[proc'[c].held].engine \in alive']_vars

\* engine 1 had a session and died without any close(); a caller holds a
\* session of engine 2
C9_Witness ==
  /\ ~closed /\ cl = 0
  /\ 1 \notin alive
  /\ \E p \in 1..Len(pages) : pages[p].engine = 1
  /\ \E c \in Callers :
       /\ proc[c].pc = "holding"
       /\ PageAlive(proc[c].held)
       /\ pages[proc[c].held].engine = 2

\* C10: a step of cleanupOldTabs removes no table entry that is in use and
\* closes no session that a caller holds
C10_CleanupSparesInUse ==
  [][(cu' # cu /\ alive' = alive /\ cl' = cl)
       => /\ \A i \in 1..Len(tabs) :
               tabs[i].inUse => TabsIndex(tabs', tabs[i].id) # 0
          /\ \A p \in HeldSessions : pages[p].open => pages'[p].open]_vars

\* C11: releaseTab of a session the pool no longer knows (its engine is gone,
\* so a disconnect or close() has cleared its entry from the table) changes
\* nothing of the pool: the table, the engine reference and the pages stay
C11_ReleaseUnknownIsNoOp ==
  [][\A c \in Callers :
       ( /\ proc[c].pc = "holding" /\ proc'[c].pc = "idle"
         /\ pages[proc[c].held].engine \notin alive )
       => /\ tabs' = tabs
          /\ UNCHANGED <<maxTabs, browser, isInitializing, alive>>
          /\ \A p \in 1..Len(pages) :
               [pages'[p] EXCEPT !.released = FALSE]
                 = [pages[p] EXCEPT !.released = FALSE]]_vars

\* ------------------------------------------------------------ SpiderCrawl
\* the link lists a page may hold (href of its anchors, in document order)
PageLinks ==
  {<<>>, <<UrlP, UrlPDup>>, <<UrlP, UrlQ>>, <<UrlPdf, UrlOther>>, <<UrlBad, UrlRoot>>}

\* the start URLs a caller may pass
StartUrls == {UrlRoot, UrlPDup, UrlPdf, UrlBad}

\* the options a caller may pass: each property given or left out
OptionChoices ==
  {d @@ p @@ s @@ e @@ i @@ t :
     d \in {NoOptions} \cup {[maxDepth |-> n] : n \in 0..MaxDepthOpt},
     p \in {NoOptions} \cup {[maxPages |-> n] : n \in 0..MaxPagesOpt},
     s \in {NoOptions, [sameDomain |-> FALSE]},
     e \in {NoOptions, [excludePatterns |-> <<>>]},
     i \in {NoOptions, [includePatterns |-> <<"p">>]},
     t \in {NoOptions, [delay |-> 0]}}

\* WebCrawl.extractLinks: one LinkData for each href of the page
LinkDataOf(href, pageUrl) ==
  [url |-> href, isInternal |-> Parses(href) /\ Hostname(href) = Hostname(pageUrl)]

ExtractLinks(hrefs, pageUrl) == [i \in 1..Len(hrefs) |-> LinkDataOf(hrefs[i], pageUrl)]

\* getTotalLinks counting the entries of the Map
getTotalEntries(m) == Len(m)

\* getTotalLinks
RECURSIVE getTotalLinks(_)
getTotalLinks(m) ==
  IF m = <<>> THEN 0 ELSE Len(Head(m).links) + getTotalLinks(Tail(m))

\* shouldProcessUrl without its domain restriction
DomainNeverRejects(url, baseUrl, options) == FALSE

\* the three filters of shouldProcessUrl
DomainRejects(url, baseUrl, options) ==
  options.sameDomain /\ Hostname(url) # Hostname(baseUrl)

\* shouldProcessUrl without its exclude patterns
ExcludeNeverRejects(url, options) == FALSE

ExcludeRejects(url, options) ==
  \E i \in 1..Len(options.excludePatterns) : Includes(url, options.excludePatterns[i])

\* shouldProcessUrl without its include patterns
IncludeNeverRejects(url, options) == FALSE

IncludeRejects(url, options) ==
  /\ Len(options.includePatterns) > 0
  /\ ~\E i \in 1..Len(options.includePatterns) : Includes(url, options.includePatterns[i])

shouldProcessUrl(url, baseUrl, options, visited) ==
  /\ url \notin visited
  /\ Parses(url)
  /\ ~DomainRejects(url, baseUrl, options)
  /\ ~ExcludeRejects(url, options)
  /\ ~IncludeRejects(url, options)

\* the loop over the links of a fetched page: this.queue after it
RECURSIVE AdmitLinks(_, _, _, _, _)
AdmitLinks(links, q, baseUrl, options, visited) ==
  IF links = <<>> THEN q
  ELSE LET newUrl == normalizeUrl(Head(links).url)
       IN AdmitLinks(Tail(links),
                     IF shouldProcessUrl(newUrl, baseUrl, options, visited)
                       THEN Append(q, newUrl) ELSE q,
                     baseUrl, options, visited)

\* processUrl without its test of this.visitedUrls
SkipUrlCapOnly(url, visited, options) ==
  Cardinality(visited) >= OrElse(options.maxPages, DefaultMaxPages)

\* the test at the head of processUrl: the URL is skipped
SkipUrl(url, visited, options) ==
  \/ url \in visited
  \/ Cardinality(visited) >= OrElse(options.maxPages, DefaultMaxPages)

\* currentBatch.map(url => this.processUrl(...)): each call runs up to its
\* await of webCrawl.crawl, in the order of the batch; n is the batch's number,
\* st and data are what webCrawl.crawl resolves with (success and data)
RECURSIVE ProcessBatch(_, _, _, _, _)
ProcessBatch(batch, visited, F, options, n) ==
  IF batch = <<>> THEN [visited |-> visited, fetches |-> F]
  ELSE IF SkipUrl(Head(batch), visited, options)
    THEN ProcessBatch(Tail(batch), visited, F, options, n)
    ELSE ProcessBatch(Tail(batch), visited \cup {Head(batch)},
                      Append(F, [url |-> Head(batch), batch |-> n, st |-> "inflight",
                                 data |-> <<>>]),
                      options, n)

\* the while loop of processQueue without its test of depth
LoopIgnoresDepth(q, depth, options) == Len(q) > 0

\* the condition of the while loop of processQueue
LoopContinues(q, depth, options) ==
  Len(q) > 0 /\ depth < OrElse(options.maxDepth, DefaultMaxDepth)

\* what crawl() returns after processQueue; linkMap is the crawler's own Map
SuccessResult(c, visited, m) ==
  [success |-> TRUE, linkMap |-> "this.linkMap", totalPages |-> Cardinality(visited),
   totalLinks |-> getTotalLinks(m), error |-> "", baseUrl |-> c.baseUrl]

\* what crawl() returns from its catch block
FailureResult(url, message) ==
  [success |-> FALSE, linkMap |-> "new Map()", totalPages |-> 0,
   totalLinks |-> 0, error |-> message, baseUrl |-> url]

\* processQueue at the head of its loop, with crawl record c, queue q, visited
\* set v, link map m and processUrl calls F: the next batch is dispatched, or
\* the loop ends and crawl() returns
LoopHead(c, q, v, m, F) ==
  IF LoopContinues(q, c.depth, c.options)
    THEN LET r == ProcessBatch(q, v, F, c.options, c.depth + 1)
         IN /\ crawl' = [c EXCEPT !.pc = "batch", !.currentBatch = q]
            /\ queue' = <<>>
            /\ visitedUrls' = r.visited
            /\ fetches' = r.fetches
            /\ linkMap' = m
    ELSE /\ crawl' = [c EXCEPT !.pc = "returned", !.result = SuccessResult(c, v, m)]
         /\ queue' = q
         /\ visitedUrls' = v
         /\ fetches' = F
         /\ linkMap' = m

\* crawl() refusing to start on a pool that was shut down
StartUrlOrClosedPoolThrows(baseUrl) == ~Parses(baseUrl) \/ closed

\* crawl() without "new URL(baseUrl)"
StartUrlNeverThrows(baseUrl) == FALSE

\* new URL(baseUrl) throws
StartUrlThrows(baseUrl) == ~Parses(baseUrl)

\* crawl(url, options) from its first line to its first await or its return:
\* the state is reset, the start URL is normalized and parsed, and
\* processQueue runs up to "await Promise.all"
Crawl(url, options) ==
  /\ LET baseUrl == normalizeUrl(url)
         c == [CrawlIdle EXCEPT !.url = url, !.given = options, !.baseUrl = baseUrl,
                                !.options = Spread(defaultOptions, options)]
     IN IF StartUrlThrows(baseUrl)
          THEN /\ crawl' = [CrawlIdle EXCEPT !.pc = "returned", !.url = url,
                                             !.given = options,
                                             !.result = FailureResult(url, "Invalid URL")]
               /\ visitedUrls' = {}
               /\ linkMap' = <<>>
               /\ queue' = <<>>
               /\ fetches' = <<>>
          ELSE LoopHead(c, <<baseUrl>>, {}, <<>>, <<>>)
  /\ UNCHANGED vars

\* the first crawl() call made of the crawler
CrawlCall(url, options) ==
  /\ crawl.pc = "idle"
  /\ Crawl(url, options)

\* the caller has its result and makes the same request once more
CrawlAgain ==
  /\ crawl.pc = "returned"
  /\ Crawl(crawl.url, crawl.given)

\* processUrl recording an entry for a page it could not fetch
FailedLinkMapRecords(m, url) == LinkMapSet(m, url, <<>>)

\* processUrl on a result without data, or in its catch block
FailedLinkMap(m, url) == m

\* webCrawl.crawl of processUrl call i resolves, with the links of the page or
\* with success = false (a renderer error, or getTab rejected), and processUrl
\* runs to its end
FetchSettle(i, ok, hrefs) ==
  /\ crawl.pc = "batch"
  /\ i \in 1..Len(fetches)
  /\ fetches[i].st = "inflight"
  /\ ok => Parses(fetches[i].url)
  /\ LET url == fetches[i].url
         links == ExtractLinks(hrefs, url)
     IN /\ linkMap' = IF ok THEN LinkMapSet(linkMap, url, links)
                            ELSE FailedLinkMap(linkMap, url)
        /\ queue' = IF ok
                      THEN AdmitLinks(links, queue, crawl.baseUrl, crawl.options, visitedUrls)
                      ELSE queue
  /\ fetches' = [fetches EXCEPT ![i].st = IF ok THEN "ok" ELSE "failed",
                                ![i].data = IF ok THEN ExtractLinks(hrefs, fetches[i].url)
                                                  ELSE <<>>]
  /\ UNCHANGED <<visitedUrls, crawl>>
  /\ UNCHANGED vars

\* processQueue going on without awaiting Promise.all
BatchNotAwaited == TRUE

\* Promise.all(promises) is settled
BatchSettled == \A i \in 1..Len(fetches) : fetches[i].st # "inflight"

\* "await Promise.all(promises)" resumes: depth++, then the delay is awaited
\* or, with no delay, the loop goes on
BatchDone ==
  /\ crawl.pc = "batch"
  /\ BatchSettled
  /\ LET c == [crawl EXCEPT !.depth = @ + 1]
     IN IF crawl.options.delay > 0
          THEN /\ crawl' = [c EXCEPT !.pc = "delay"]
               /\ UNCHANGED <<visitedUrls, linkMap, queue, fetches>>
          ELSE LoopHead(c, queue, visitedUrls, linkMap, fetches)
  /\ UNCHANGED vars

\* the timer of this.delay(options.delay) fires
DelayElapsed ==
  /\ crawl.pc = "delay"
  /\ LoopHead(crawl, queue, visitedUrls, linkMap, fetches)
  /\ UNCHANGED vars

\* one crawler, one run in flight at a time; the pool stands still
SpiderNext ==
  \/ (\E url \in StartUrls : \E options \in OptionChoices : CrawlCall(url, options))
       /\ UNCHANGED xvars
  \/ (\E i \in 1..Len(fetches) : FetchSettle(i, FALSE, <<>>)) /\ UNCHANGED xvars
  \/ (\E i \in 1..Len(fetches) : \E hrefs \in PageLinks : FetchSettle(i, TRUE, hrefs))
       /\ UNCHANGED xvars
  \/ CrawlAgain /\ UNCHANGED xvars
  \/ BatchDone /\ UNCHANGED xvars
  \/ DelayElapsed /\ UNCHANGED xvars

\* the crawler over a pool of one configuration
SpiderInit == Init /\ maxTabs = MaxTabsBound

SpiderSpec == SpiderInit /\ [][SpiderNext]_allvars

\* ------------------------------------------ two calls of one crawler
\* The route handlers call the one exported crawler; a request that arrives
\* while a run is in flight starts a second crawl() on the same fields.

\* the start URLs, options and pages of the overlapping calls
OverlapUrls == {UrlRoot, UrlPDup}

OverlapOptions == {[maxDepth |-> MaxDepthOpt], [maxPages |-> 1, delay |-> 0]}

OverlapLinks == {<<>>, <<UrlP, UrlQ>>}

\* processQueue of the second call at the head of its loop
LoopHead2(c, q, v, m, F) ==
  IF LoopContinues(q, c.depth, c.options)
    THEN LET r == ProcessBatch(q, v, F, c.options, c.depth + 1)
         IN /\ crawl2' = [c EXCEPT !.pc = "batch", !.currentBatch = q]
            /\ queue' = <<>>
            /\ visitedUrls' = r.visited
            /\ fetches2' = r.fetches
            /\ linkMap' = m
    ELSE /\ crawl2' = [c EXCEPT !.pc = "returned", !.result = SuccessResult(c, v, m)]
         /\ queue' = q
         /\ visitedUrls' = v
         /\ fetches2' = F
         /\ linkMap' = m

\* crawl(url, options) called while the first call is in flight: the same
\* code on the same fields, with locals of its own
Crawl2(url, options) ==
  /\ crawl.pc \in {"batch", "delay"}
  /\ crawl2.pc = "idle"
  /\ LET baseUrl == normalizeUrl(url)
         c == [CrawlIdle EXCEPT !.url = url, !.given = options, !.baseUrl = baseUrl,
                                !.options = Spread(defaultOptions, options)]
     IN IF StartUrlThrows(baseUrl)
          THEN /\ crawl2' = [CrawlIdle EXCEPT !.pc = "returned", !.url = url,
                                              !.given = options,
                                              !.result = FailureResult(url, "Invalid URL")]
               /\ visitedUrls' = {}
               /\ linkMap' = <<>>
               /\ queue' = <<>>
               /\ fetches2' = <<>>
          ELSE LoopHead2(c, <<baseUrl>>, {}, <<>>, <<>>)
  /\ UNCHANGED <<crawl, fetches, norm, view, web>>
  /\ UNCHANGED vars

\* webCrawl.crawl of processUrl call i of the second call resolves
FetchSettle2(i, ok, hrefs) ==
  /\ crawl2.pc = "batch"
  /\ i \in 1..Len(fetches2)
  /\ fetches2[i].st = "inflight"
  /\ ok => Parses(fetches2[i].url)
  /\ LET url == fetches2[i].url
         links == ExtractLinks(hrefs, url)
     IN /\ linkMap' = IF ok THEN LinkMapSet(linkMap, url, links)
                            ELSE FailedLinkMap(linkMap, url)
        /\ queue' = IF ok
                      THEN AdmitLinks(links, queue, crawl2.baseUrl, crawl2.options,
                                      visitedUrls)
                      ELSE queue
  /\ fetches2' = [fetches2 EXCEPT ![i].st = IF ok THEN "ok" ELSE "failed",
                                  ![i].data = IF ok THEN ExtractLinks(hrefs, fetches2[i].url)
                                                    ELSE <<>>]
  /\ UNCHANGED <<visitedUrls, crawl2, crawl, fetches, norm, view, web>>
  /\ UNCHANGED vars

\* Promise.all(promises) of the second call is settled
BatchSettled2 == \A i \in 1..Len(fetches2) : fetches2[i].st # "inflight"

\* "await Promise.all(promises)" of the second call resumes
BatchDone2 ==
  /\ crawl2.pc = "batch"
  /\ BatchSettled2
  /\ LET c == [crawl2 EXCEPT !.depth = @ + 1]
     IN IF crawl2.options.delay > 0
          THEN /\ crawl2' = [c EXCEPT !.pc = "delay"]
               /\ UNCHANGED <<visitedUrls, linkMap, queue, fetches2>>
          ELSE LoopHead2(c, queue, visitedUrls, linkMap, fetches2)
  /\ UNCHANGED <<crawl, fetches, norm, view, web>>
  /\ UNCHANGED vars

\* the timer of the second call's delay fires
DelayElapsed2 ==
  /\ crawl2.pc = "delay"
  /\ LoopHead2(crawl2, queue, visitedUrls, linkMap, fetches2)
  /\ UNCHANGED <<crawl, fetches, norm, view, web>>
  /\ UNCHANGED vars

\* one crawler serving two requests, the second arriving during the first
OverlapNext ==
  \/ (\E url \in OverlapUrls : \E options \in OverlapOptions : CrawlCall(url, options))
       /\ UNCHANGED xvars
  \/ (\E i \in 1..Len(fetches) : FetchSettle(i, FALSE, <<>>)) /\ UNCHANGED xvars
  \/ (\E i \in 1..Len(fetches) : \E hrefs \in OverlapLinks : FetchSettle(i, TRUE, hrefs))
       /\ UNCHANGED xvars
  \/ BatchDone /\ UNCHANGED xvars
  \/ DelayElapsed /\ UNCHANGED xvars
  \/ \E url \in OverlapUrls : \E options \in OverlapOptions : Crawl2(url, options)
  \/ \E i \in 1..Len(fetches2) : FetchSettle2(i, FALSE, <<>>)
  \/ \E i \in 1..Len(fetches2) : \E hrefs \in OverlapLinks : FetchSettle2(i, TRUE, hrefs)
  \/ BatchDone2
  \/ DelayElapsed2

OverlapSpec == SpiderInit /\ [][OverlapNext]_allvars

\* ------------------------------------------------- the crawler's claims
\* a run of the crawler is in flight
Running == crawl.pc \in {"batch", "delay"}

\* the URLs of the processUrl calls that this step sent on to webCrawl.crawl
Dispatched ==
  IF Running
    THEN {fetches'[i].url : i \in (Len(fetches) + 1)..Len(fetches')}
    ELSE {fetches'[i].url : i \in 1..Len(fetches')}

\* C12: in one run no URL is fetched twice, so no two fetches of one URL are
\* ever in flight together, no URL is a Link Map key twice, and a URL enters
\* the Visited Set in the very step that dispatches its fetch, once
C12_DedupGate ==
  /\ [](\A i, j \in 1..Len(fetches) : fetches[i].url = fetches[j].url => i = j)
  /\ [](\A i, j \in 1..Len(linkMap) : linkMap[i].key = linkMap[j].key => i = j)
  /\ [](\A i \in 1..Len(fetches) :
          fetches[i].url \in visitedUrls /\ normalizeUrl(fetches[i].url) = fetches[i].url)
  /\ [][Running => /\ visitedUrls \subseteq visitedUrls'
                   /\ visitedUrls' \ visitedUrls = Dispatched]_allvars

\* a batch holds the same URL twice and one fetch of it was dispatched
C12_Witness ==
  /\ crawl.pc = "batch"
  /\ \E i, j \in 1..Len(crawl.currentBatch) :
       /\ i # j
       /\ crawl.currentBatch[i] = crawl.currentBatch[j]
       /\ \E k \in 1..Len(fetches) :
            fetches[k].url = crawl.currentBatch[i] /\ fetches[k].batch = crawl.depth + 1

\* C13: during a run the Visited Set never shrinks and never holds more
\* than maxPages URLs, so at most maxPages fetches are dispatched
C13_VisitedBounded ==
  /\ [](crawl.options # NoOptions =>
          /\ Cardinality(visitedUrls) <= crawl.options.maxPages
          /\ Len(fetches) <= crawl.options.maxPages)
  /\ [][Running => Cardinality(visitedUrls') >= Cardinality(visitedUrls)]_allvars

\* C14: a run called with maxDepth >= 1 dispatches no batch beyond the
\* maxDepth-th; with maxDepth = 1 only the start URL is fetched and the Link
\* Map gets at most one entry
C14_DepthBound ==
  ("maxDepth" \in DOMAIN crawl.given /\ crawl.given.maxDepth >= 1) =>
     /\ crawl.depth <= crawl.given.maxDepth
     /\ \A i \in 1..Len(fetches) : fetches[i].batch <= crawl.given.maxDepth
     /\ crawl.given.maxDepth = 1 =>
          /\ \A i \in 1..Len(fetches) : fetches[i].url = crawl.baseUrl
          /\ Len(linkMap) <= 1

\* a run with maxDepth = 1 has returned; the links its start page yielded are
\* still queued and were never fetched
C14_Witness ==
  /\ crawl.pc = "returned"
  /\ "maxDepth" \in DOMAIN crawl.given
  /\ crawl.given.maxDepth = 1
  /\ crawl.result.success
  /\ queue # <<>>
  /\ Len(fetches) = 1

\* C15: with sameDomain in force, every Link Map key, and every URL fetched,
\* has the hostname of the normalized start URL
C15_SameDomain ==
  (crawl.options # NoOptions /\ crawl.options.sameDomain) =>
     /\ \A i \in 1..Len(linkMap) : Hostname(linkMap[i].key) = Hostname(crawl.baseUrl)
     /\ \A i \in 1..Len(fetches) : Hostname(fetches[i].url) = Hostname(crawl.baseUrl)

\* a run with sameDomain in force has returned; a page it fetched linked to
\* another host, and the run went on to fetch pages of its own host
C15_Witness ==
  /\ crawl.pc = "returned"
  /\ crawl.result.success
  /\ crawl.options.sameDomain
  /\ Len(linkMap) >= 2
  /\ \E i \in 1..Len(linkMap) : \E j \in 1..Len(linkMap[i].links) :
       /\ Parses(linkMap[i].links[j].url)
       /\ Hostname(linkMap[i].links[j].url) # Hostname(crawl.baseUrl)

\* the URL contains an exclude substring of the run, or the run has include
\* substrings and the URL contains none of them
PatternsReject(url) ==
  \/ \E i \in 1..Len(crawl.options.excludePatterns) :
       \E k \in 1..Len(url) : url[k] = crawl.options.excludePatterns[i]
  \/ /\ crawl.options.includePatterns # <<>>
     /\ \A i \in 1..Len(crawl.options.includePatterns) :
          \A k \in 1..Len(url) : url[k] # crawl.options.includePatterns[i]

\* C16 as claimed: no URL that the exclude or include patterns turn down is
\* fetched in a run, the start URL included
C16_PatternFiltersAll ==
  crawl.options # NoOptions =>
    \A i \in 1..Len(fetches) : ~PatternsReject(fetches[i].url)

\* C16 as amended: the start URL is fetched whatever the patterns say; no
\* other URL that the exclude or include patterns turn down is fetched
C16_PatternFiltersLinks ==
  crawl.options # NoOptions =>
    \A i \in 1..Len(fetches) :
      fetches[i].url # crawl.baseUrl => ~PatternsReject(fetches[i].url)

\* a run has returned whose start URL the patterns turn down and whose start
\* page was fetched all the same; a link that the patterns turn down was
\* found and not fetched, and another link was fetched
C16_Witness ==
  /\ crawl.pc = "returned"
  /\ crawl.result.success
  /\ PatternsReject(crawl.baseUrl)
  /\ LinkMapHas(linkMap, crawl.baseUrl)
  /\ Len(linkMap) >= 2
  /\ \E i \in 1..Len(linkMap) : \E j \in 1..Len(linkMap[i].links) :
       LET u == normalizeUrl(linkMap[i].links[j].url)
       IN u # crawl.baseUrl /\ Parses(u) /\ PatternsReject(u) /\ u \notin visitedUrls

\* C17: a fetch that fails leaves no Link Map entry and leaves its URL in the
\* Visited Set; the step changes nothing else of the run, which goes on, and
\* a run that got past its setup returns success = true, whatever failed
C17_FetchFailureIsLocal ==
  /\ [](\A i \in 1..Len(fetches) :
          fetches[i].st = "failed" =>
            (fetches[i].url \in visitedUrls /\ ~LinkMapHas(linkMap, fetches[i].url)))
  /\ []((crawl.pc = "returned" /\ Parses(crawl.baseUrl)) => crawl.result.success)
  /\ [][\A i \in 1..Len(fetches) :
          (Running /\ fetches[i].st = "inflight" /\ Len(fetches') = Len(fetches)
             /\ fetches'[i].st = "failed")
          => /\ UNCHANGED <<visitedUrls, linkMap, queue, crawl>>
             /\ \A j \in 1..Len(fetches) : j # i => fetches'[j] = fetches[j]]_allvars

\* a run of two batches has returned success = true although every fetch of
\* it failed but the first
C17_Witness ==
  /\ crawl.pc = "returned"
  /\ crawl.result.success
  /\ Len(fetches) >= 2
  /\ fetches[1].st = "ok"
  /\ \A i \in 2..Len(fetches) : fetches[i].st = "failed"

\* no processUrl call is awaiting webCrawl.crawl
NoneInFlight(F) == \A i \in 1..Len(F) : F[i].st # "inflight"

\* C18: a batch after the first is dispatched only when every fetch of the
\* batches before has settled and, with a delay configured, when the delay
\* has elapsed; crawl() returns only when no fetch is in flight
C18_BatchOrder ==
  /\ [](\A i \in 1..Len(fetches) :
          fetches[i].st = "inflight" =>
            (crawl.pc = "batch" /\ fetches[i].batch = crawl.depth + 1))
  /\ [][(Running /\ Len(fetches') > Len(fetches))
          => /\ NoneInFlight(fetches)
             /\ crawl.options.delay > 0 => crawl.pc = "delay"]_allvars
  /\ [][(Running /\ crawl'.pc = "returned") => NoneInFlight(fetches)]_allvars

\* with a delay configured, the second batch has been dispatched
C18_Witness ==
  /\ crawl.pc = "batch"
  /\ crawl.options.delay > 0
  /\ crawl.depth = 1
  /\ \E i \in 1..Len(fetches) : fetches[i].batch = 2 /\ fetches[i].st = "inflight"

\* C19: the totalPages of a successful result is the number of Link Map
\* entries
C19_TotalPagesCountsEntries ==
  (crawl.pc = "returned" /\ crawl.result.success)
    => crawl.result.totalPages = Len(linkMap)

\* C20: crawl() of a start URL that does not parse returns success = false
\* with an error message, an empty Link Map of its own and zero totals, and
\* has dispatched no fetch (a run calls getTab only inside a fetch)
C20_BadStartUrlFails ==
  (crawl.pc = "returned" /\ ~Parses(crawl.url))
    => /\ ~crawl.result.success
       /\ crawl.result.error # ""
       /\ crawl.result.linkMap = "new Map()"
       /\ crawl.result.totalPages = 0
       /\ crawl.result.totalLinks = 0
       /\ fetches = <<>>
       /\ visitedUrls = {}

\* crawl() of a string that is no URL has returned
C20_Witness ==
  /\ crawl.pc = "returned"
  /\ crawl.url = UrlBad
  /\ ~crawl.result.success

\* the second call takes a step
SecondCallSteps == crawl2' # crawl2 \/ fetches2' # fetches2

\* C21: the Visited Set, Link Map and frontier are not shared between
\* overlapping crawl() calls of one crawler: while a run is in flight no step
\* of another call clears or adds to them, and the Link Map a call returns
\* holds only pages its own run fetched
C21_RunsIsolated ==
  /\ [][(Running /\ SecondCallSteps) => UNCHANGED <<visitedUrls, linkMap, queue>>]_allvars
  /\ [][(crawl.pc = "batch" /\ crawl'.pc = "returned")
          => \A e \in 1..Len(linkMap') :
               \E i \in 1..Len(fetches') : fetches'[i].url = linkMap'[e].key]_allvars

\* ------------------------------------------------------ normalizeUrl alone
\* the strings normalizeUrl may be given: every sequence of at most MaxUrlLen
\* tokens, the scheme only in front
UrlTokens == {Scheme, "a.com", Slash, "p", Hash}

UrlStrings ==
  {u \in UNION {[1..n -> UrlTokens] : n \in 0..MaxUrlLen} :
     \A i \in 2..Len(u) : u[i] # Scheme}

\* a call normalizeUrl(u), as crawl() makes it on its argument and processUrl
\* on every link of a page
Normalize(u) ==
  /\ norm' = [op |-> "normalizeUrl", url |-> u, returned |-> normalizeUrl(u)]
  /\ UNCHANGED <<visitedUrls, linkMap, queue, crawl, fetches, crawl2, fetches2, view, web>>
  /\ UNCHANGED vars

\* the first call
NormalizeCall(u) ==
  /\ norm = NoCall
  /\ Normalize(u)

\* what normalizeUrl returned is normalized once more
NormalizeAgain ==
  /\ norm.op = "normalizeUrl"
  /\ Normalize(norm.returned)

NormNext ==
  \/ \E u \in UrlStrings : NormalizeCall(u)
  \/ NormalizeAgain

NormSpec == SpiderInit /\ [][NormNext]_allvars

\* C22: normalizeUrl is idempotent and total: normalizing its result returns
\* the result, the result of a string that parses as a URL has no fragment
\* and no two path separators in a row, and a string that does not parse is
\* returned as it is
C22_NormalizeIdempotent ==
  /\ [](norm.op = "normalizeUrl" =>
          LET r == norm.returned
          IN /\ Parses(norm.url) =>
                  /\ \A i \in 1..Len(r) : r[i] # Hash
                  /\ \A i \in 1..(Len(r) - 1) : ~(r[i] = Slash /\ r[i + 1] = Slash)
                  /\ Parses(r)
             /\ ~Parses(norm.url) => r = norm.url)
  /\ [][norm.op = "normalizeUrl" /\ norm'.url = norm.returned
          => norm'.returned = norm.returned]_allvars

\* a URL with a doubled separator and a fragment has been normalized
C22_Witness ==
  /\ norm.op = "normalizeUrl"
  /\ norm.url = <<Scheme, "a.com", Slash, Slash, "p", Hash>>
  /\ norm.returned = <<Scheme, "a.com", Slash, "p">>

\* -------------------------------------------------------------- the queries
\* links.filter(link => true): a view that does not filter
AllLinks(links) == links

\* links.filter(link => link.isInternal)
InternalLinks(links) == SelectSeq(links, LAMBDA link : link.isInternal)

\* links.filter(link => !link.isInternal)
ExternalLinks(links) == SelectSeq(links, LAMBDA link : ~link.isInternal)

\* the Map getInternalLinks builds over the entries of m, in their order
RECURSIVE InternalMap(_)
InternalMap(m) ==
  IF m = <<>> THEN <<>>
  ELSE LET internalLinks == InternalLinks(Head(m).links)
       IN (IF Len(internalLinks) > 0
             THEN <<[key |-> Head(m).key, links |-> internalLinks]>> ELSE <<>>)
          \o InternalMap(Tail(m))

\* the Map getExternalLinks builds
RECURSIVE ExternalMap(_)
ExternalMap(m) ==
  IF m = <<>> THEN <<>>
  ELSE LET externalLinks == ExternalLinks(Head(m).links)
       IN (IF Len(externalLinks) > 0
             THEN <<[key |-> Head(m).key, links |-> externalLinks]>> ELSE <<>>)
          \o ExternalMap(Tail(m))

\* the object exportLinkMap builds: one property for each key of the Map
ExportData(m) ==
  [k \in {m[i].key : i \in 1..Len(m)} |->
     m[CHOOSE i \in 1..Len(m) : m[i].key = k].links]

\* what getStats returns; the average is kept as <<dividend, divisor>>
StatsOf(visited, m) ==
  [visitedUrls |-> Cardinality(visited),
   totalLinks |-> getTotalLinks(m),
   uniqueDomains |-> {Hostname(u) : u \in {w \in visited : Parses(w)}},
   averageLinksPerPage |-> IF Cardinality(visited) > 0
                             THEN <<getTotalLinks(m), Cardinality(visited)>>
                             ELSE <<0, 1>>]

\* a query runs from its first line to its return; none of them awaits
Query(op, returned) ==
  /\ view = NoCall
  /\ view' = [op |-> op, returned |-> returned]
  /\ UNCHANGED <<visitedUrls, linkMap, queue, crawl, fetches, crawl2, fetches2, norm, web>>
  /\ UNCHANGED vars

GetStats == Query("getStats", StatsOf(visitedUrls, linkMap))

ExportLinkMap == Query("exportLinkMap", ExportData(linkMap))

GetInternalLinks == Query("getInternalLinks", InternalMap(linkMap))

GetExternalLinks == Query("getExternalLinks", ExternalMap(linkMap))

\* the caller has read what the query returned
ViewRead ==
  /\ view # NoCall
  /\ view' = NoCall
  /\ UNCHANGED <<visitedUrls, linkMap, queue, crawl, fetches, crawl2, fetches2, norm, web>>
  /\ UNCHANGED vars

\* the options of the runs that are queried
QueryOptions == {[maxDepth |-> MaxDepthOpt, delay |-> 0], [maxPages |-> 0, delay |-> 0]}

\* one crawler, one run at a time, queried at any moment
QueryNext ==
  \/ (\E options \in QueryOptions : CrawlCall(UrlRoot, options)) /\ UNCHANGED xvars
  \/ (\E i \in 1..Len(fetches) : FetchSettle(i, FALSE, <<>>)) /\ UNCHANGED xvars
  \/ (\E i \in 1..Len(fetches) : \E hrefs \in PageLinks : FetchSettle(i, TRUE, hrefs))
       /\ UNCHANGED xvars
  \/ BatchDone /\ UNCHANGED xvars
  \/ GetStats
  \/ ExportLinkMap
  \/ GetInternalLinks
  \/ GetExternalLinks
  \/ ViewRead

QuerySpec == SpiderInit /\ [][QueryNext]_allvars

\* a query returns
QueryReturns(op) == view = NoCall /\ view'.op = op

\* the links a view of the Link Map holds for page k, and how often link l
\* occurs in a list
ViewLinks(v, k) ==
  IF \E i \in 1..Len(v) : v[i].key = k
    THEN v[CHOOSE i \in 1..Len(v) : v[i].key = k].links
    ELSE <<>>

Occurrences(l, links) == Cardinality({j \in 1..Len(links) : links[j] = l})

\* C23: getStats, exportLinkMap, getInternalLinks and getExternalLinks are
\* pure projections: none changes the Visited Set, Link Map or frontier;
\* exportLinkMap returns the keys and link lists of the Link Map; and every
\* link of every page is in the internal view if its isInternal flag is set
\* and in the external view if not, as often as in the page's list, and in
\* the other view not at all
C23_QueriesArePure ==
  /\ [][(\E op \in {"getStats", "exportLinkMap", "getInternalLinks", "getExternalLinks"} :
           QueryReturns(op))
          => UNCHANGED <<visitedUrls, linkMap, queue>>]_allvars
  /\ [][QueryReturns("exportLinkMap")
          => /\ DOMAIN view'.returned = {linkMap[e].key : e \in 1..Len(linkMap)}
             /\ \A e \in 1..Len(linkMap) :
                  view'.returned[linkMap[e].key] = linkMap[e].links]_allvars
  /\ [][QueryReturns("getInternalLinks")
          => /\ \A i \in 1..Len(view'.returned) :
                  LinkMapHas(linkMap, view'.returned[i].key)
             /\ \A e \in 1..Len(linkMap) : \A j \in 1..Len(linkMap[e].links) :
                  LET l == linkMap[e].links[j]
                  IN Occurrences(l, ViewLinks(view'.returned, linkMap[e].key))
                       = IF l.isInternal THEN Occurrences(l, linkMap[e].links) ELSE 0]_allvars
  /\ [][QueryReturns("getExternalLinks")
          => /\ \A i \in 1..Len(view'.returned) :
                  LinkMapHas(linkMap, view'.returned[i].key)
             /\ \A e \in 1..Len(linkMap) : \A j \in 1..Len(linkMap[e].links) :
                  LET l == linkMap[e].links[j]
                  IN Occurrences(l, ViewLinks(view'.returned, linkMap[e].key))
                       = IF l.isInternal THEN 0 ELSE Occurrences(l, linkMap[e].links)]_allvars

\* the external view of a Link Map with a page that links inside and outside
\* its site
C23_Witness ==
  /\ view.op = "getExternalLinks"
  /\ Len(view.returned) > 0
  /\ \E e \in 1..Len(linkMap) :
       /\ \E j \in 1..Len(linkMap[e].links) : linkMap[e].links[j].isInternal
       /\ \E j \in 1..Len(linkMap[e].links) : ~linkMap[e].links[j].isInternal

\* the conditions of the claim for candidate u (a normalized link) in the
\* run in flight
Admissible(u) ==
  /\ u \notin visitedUrls
  /\ Len(u) >= 3 /\ u[1] = Scheme /\ u[2] \in Hosts /\ u[3] = Slash
  /\ crawl.options.sameDomain => u[2] = crawl.baseUrl[2]
  /\ \A k \in 1..Len(crawl.options.excludePatterns) :
       \A j \in 1..Len(u) : u[j] # crawl.options.excludePatterns[k]
  /\ \/ crawl.options.includePatterns = <<>>
     \/ \E k \in 1..Len(crawl.options.includePatterns) :
          \E j \in 1..Len(u) : u[j] = crawl.options.includePatterns[k]

\* the candidates of a list of links: their URLs, normalized or, when they do
\* not parse, as they are
Candidates(links) == [j \in 1..Len(links) |-> normalizeUrl(links[j].url)]

\* C24: when a page is fetched, its links are added to the frontier in
\* their order, each one (normalized) if and only if it is not in the Visited
\* Set, its hostname is the start URL's or sameDomain is off, it contains no
\* exclude substring, and it contains an include substring or there is none;
\* a link that does not parse is not added, and the run goes on
C24_AdmissionRule ==
  [][\A i \in 1..Len(fetches) :
       (fetches[i].st = "inflight" /\ fetches'[i].st = "ok")
         => /\ LinkMapHas(linkMap', fetches[i].url)
            /\ LET e == CHOOSE e \in 1..Len(linkMap') : linkMap'[e].key = fetches[i].url
               IN queue' = queue \o SelectSeq(Candidates(linkMap'[e].links), Admissible)
            /\ crawl' = crawl]_allvars

\* a page with a link that does not parse and a link that is admitted
C24_Witness ==
  /\ crawl.pc = "batch"
  /\ queue = <<normalizeUrl(UrlRoot)>>
  /\ \E e \in 1..Len(linkMap) :
       Candidates(linkMap[e].links) = <<UrlBad, normalizeUrl(UrlRoot)>>

\* the domain restriction, the exclude patterns or the include patterns of
\* the run turn the (normalized) URL down
FiltersReject(url) ==
  \/ crawl.options.sameDomain /\ url[2] # crawl.baseUrl[2]
  \/ PatternsReject(url)

\* C25: the Link Map entry of a fetched page holds every link the renderer
\* returned for it, in the renderer's order, whether the filters pass it or
\* not; and a link the filters reject is in the entry but not in the frontier
C25_EntryUnfiltered ==
  /\ \A i \in 1..Len(fetches) :
       fetches[i].st = "ok" =>
         /\ LinkMapHas(linkMap, fetches[i].url)
         /\ \A e \in 1..Len(linkMap) :
              linkMap[e].key = fetches[i].url => linkMap[e].links = fetches[i].data
  /\ \A e \in 1..Len(linkMap) : \A j \in 1..Len(linkMap[e].links) :
       LET u == normalizeUrl(linkMap[e].links[j].url)
       IN (Parses(u) /\ FiltersReject(u)) => \A q \in 1..Len(queue) : queue[q] # u

\* a page linking to a PDF document is recorded while ".pdf" is excluded and
\* another of its links has been queued
C25_Witness ==
  /\ crawl.pc = "batch"
  /\ \E k \in 1..Len(crawl.options.excludePatterns) :
       crawl.options.excludePatterns[k] = ".pdf"
  /\ \E e \in 1..Len(linkMap) : \E j \in 1..Len(linkMap[e].links) :
       linkMap[e].links[j].url = UrlPdf
  /\ Len(queue) > 0
  /\ \A q \in 1..Len(queue) : queue[q] # UrlPdf

\* ------------------------------------------------------------- termination
\* Every dispatched fetch settles (the renderer bounds navigation by a
\* timeout and webCrawl.crawl resolves on every path), the continuation of a
\* settled Promise.all runs, and the delay timer fires.
SpiderFairness ==
  /\ WF_allvars((\E i \in 1..Len(fetches) : \E hrefs \in PageLinks :
                   FetchSettle(i, FALSE, <<>>) \/ FetchSettle(i, TRUE, hrefs))
                /\ UNCHANGED xvars)
  /\ WF_allvars(BatchDone /\ UNCHANGED xvars)
  /\ WF_allvars(DelayElapsed /\ UNCHANGED xvars)

FairSpiderSpec == SpiderInit /\ [][SpiderNext]_allvars /\ SpiderFairness

\* the batches the run has dispatched so far
Batches == crawl.depth + (IF crawl.pc = "batch" THEN 1 ELSE 0)

\* the maxDepth of the call: the caller's, or the default when it gave none
CallMaxDepth ==
  IF "maxDepth" \in DOMAIN crawl.given THEN crawl.given.maxDepth ELSE DefaultMaxDepth

\* C26: if every dispatched fetch settles, every crawl() call returns; the
\* loop ends with an empty frontier or with depth at maxDepth, and a run
\* dispatches at most maxDepth batches
C26_RunReturns ==
  /\ Running ~> crawl.pc = "returned"
  /\ [](crawl.options # NoOptions => Batches <= CallMaxDepth)

\* the maxPages of the call: the caller's, or the default when it gave none
CallMaxPages ==
  IF "maxPages" \in DOMAIN crawl.given THEN crawl.given.maxPages ELSE DefaultMaxPages

\* C27: the traversal uses the caller's maxDepth and maxPages, whatever
\* non-negative value they have, and the defaults only when the caller gave
\* none: a call dispatches at most maxDepth batches and fetches at most
\* maxPages pages, so none at all with maxDepth = 0 or with maxPages = 0
C27_CallerValuesUsed ==
  crawl.pc # "idle" =>
    /\ Batches <= CallMaxDepth
    /\ Len(fetches) <= CallMaxPages

\* ------------------------------------------------- a crawl after close()
\* the options of a run started on a pool that was shut down
ShutdownOptions == {[maxDepth |-> 1, delay |-> 0], [maxPages |-> MaxPagesOpt, delay |-> 0]}

\* crawl() called once close() has run to its end and nobody uses the pool
CrawlAfterClose(url, options) ==
  /\ closed
  /\ browser = 0
  /\ cl = 0
  /\ \A x \in Procs : proc[x].pc \in {"idle", "free"}
  /\ CrawlCall(url, options)

\* the pool is used and shut down, then the crawler is started; the pool is
\* followed up to the crawl() call and the fetches of the run settle either way
ShutdownNext ==
  \/ crawl.pc = "idle" /\ NextPool
  \/ (\E url \in {UrlRoot, UrlBad} : \E options \in ShutdownOptions :
        CrawlAfterClose(url, options)) /\ UNCHANGED xvars
  \/ (\E i \in 1..Len(fetches) : FetchSettle(i, FALSE, <<>>)) /\ UNCHANGED xvars
  \/ (\E i \in 1..Len(fetches) : \E hrefs \in OverlapLinks : FetchSettle(i, TRUE, hrefs))
       /\ UNCHANGED xvars
  \/ BatchDone /\ UNCHANGED xvars

ShutdownSpec == SpiderInit /\ [][ShutdownNext]_allvars

LinkPlaces(m) == UNION {{<<e, j>> : j \in 1..Len(m[e].links)} : e \in 1..Len(m)}

\* C29: the totalLinks of a successful crawl result and the totalLinks of
\* getStats() are the sum of the lengths of the link lists of all Link Map
\* entries at the time of the call
C29_TotalLinksIsSum ==
  /\ [][(crawl.pc # "returned" /\ crawl'.pc = "returned" /\ crawl'.result.success)
          => crawl'.result.totalLinks = Cardinality(LinkPlaces(linkMap'))]_allvars
  /\ [][QueryReturns("getStats")
          => view'.returned.totalLinks = Cardinality(LinkPlaces(linkMap))]_allvars

\* getStats() after a run that recorded several pages with links
C29_Witness ==
  /\ crawl.pc = "returned"
  /\ Len(linkMap) >= 2
  /\ crawl.result.totalLinks > Len(linkMap)
  /\ view.op = "getStats"
  /\ view.returned.totalLinks = crawl.result.totalLinks

\* the live sessions of the running engine that createNewTab has registered
RegisteredSessions ==
  {p \in LiveSessions : pages[p].engine = browser /\ pages[p].tabId # ""}

\* C30: every session the pool creates is registered under a key of its own
\* for as long as it lives: registering a session adds an entry to the session
\* table and overwrites none, no two live sessions have the same key, and the
\* table has as many entries as there are live registered sessions
C30_UniqueKeys ==
  /\ [][\A x \in Procs :
          (proc[x].pc = "configuring" /\ proc'[x].pc # "configuring" /\ tabs' # tabs)
            => Len(tabs') = Len(tabs) + 1]_vars
  /\ [](\A p, q \in RegisteredSessions : p # q => pages[p].tabId # pages[q].tabId)
  /\ [](Len(tabs) = Cardinality(RegisteredSessions))

\* ------------------------------------------------ the remaining claims
\* the getTab() of polling attempt p resolves with a page in this step
PollGotPage(p) ==
  /\ proc'[p].pc = "free"
  /\ \/ /\ proc[p].pc = "awaitPages"
        /\ proc[p].eng \in alive
        /\ FindPage(proc[p].eng, proc[p].tkey) # 0
     \/ /\ proc[p].pc = "configuring"
        /\ PageAlive(proc[p].held)

\* the page polling attempt p is about to get
PollPage(p) ==
  IF proc[p].pc = "awaitPages" THEN FindPage(proc[p].eng, proc[p].tkey) ELSE proc[p].held

\* C31: a waiting acquire() takes at most one session, and every session a
\* polling attempt obtains (and marks in use) is handed to the waiting caller:
\* none stays marked in use for an attempt whose result is discarded because
\* the acquire() has already resolved or timed out
C31_NoDiscardedSession ==
  [][\A p \in Polls :
       PollGotPage(p)
         => \E c \in Callers :
              /\ proc[c].pc = "waiting"
              /\ proc'[c].pc = "holding"
              /\ proc'[c].held = PollPage(p)]_vars

\* C32: in a single crawl run every Link Map key is in the Visited Set, so
\* the Link Map has no more entries than the Visited Set has members, and no
\* more than maxPages
C32_LinkMapWithinVisited ==
  crawl.pc # "idle" =>
    /\ \A e \in 1..Len(linkMap) : linkMap[e].key \in visitedUrls
    /\ Len(linkMap) <= Cardinality(visitedUrls)
    /\ Len(linkMap) <= CallMaxPages

\* the entries of the Map that result r refers to, when the crawler's Map
\* holds m: a successful result refers to the crawler's own Map, a failed one
\* to an empty Map of its own
ResultLinkMap(r, m) == IF r.linkMap = "this.linkMap" THEN m ELSE <<>>

\* C33: the Link Map in the result of a completed crawl() is not changed by
\* a later crawl() call of the same crawler: its keys and link lists stay as
\* they were when the result was returned
C33_ResultLinkMapStable ==
  [][(crawl.pc = "returned" /\ crawl' # crawl)
       => ResultLinkMap(crawl.result, linkMap') = ResultLinkMap(crawl.result, linkMap)]_allvars

\* ---------------------------------------------------------- WebCrawl.crawl
\* The callers of the pool are the WebCrawl.crawl calls; here each call is
\* followed from its first line to its return.

\* isValidUrl accepting every string
IsValidUrlAlways(url) == TRUE

\* isValidUrl: new URL(url) does not throw
IsValidUrl(url) == Parses(url)

\* the urls WebCrawl.crawl is called with
WebUrls == {UrlRoot, UrlBad}

\* "page = await this.controller.getTab()" goes on in the step that settles
\* the promise: with the page, or in the catch block and then the finally
\* block, whose "if (page)" finds null
WebSettled(W, P) ==
  [c \in Callers |->
     IF W[c].pc # "getTab" THEN W[c]
     ELSE IF P[c].pc = "holding" THEN [W[c] EXCEPT !.pc = "page", !.page = P[c].held]
     ELSE IF P[c].pc = "idle" THEN [W[c] EXCEPT !.pc = "returned", !.success = FALSE]
     ELSE W[c]]

\* crawl(url, options) is called: an invalid url throws inside the try and
\* the call returns success: false; else getTab() is called
WebCrawlCall(c, url) ==
  /\ web[c].pc \in {"idle", "returned"}
  /\ IF IsValidUrl(url)
       THEN /\ GetTabCall(c)
            /\ web' = WebSettled([web EXCEPT ![c] = [WebIdle EXCEPT !.pc = "getTab",
                                                                   !.url = url]], proc')
       ELSE /\ NoMicrotask
            /\ proc[c].pc = "idle"
            /\ web' = [web EXCEPT ![c] = [WebIdle EXCEPT !.pc = "returned", !.url = url]]
            /\ UNCHANGED vars

\* the rest of the try block ends, by its return (ok) or by a throw of goto
\* or of the extraction; the finally block calls releaseTab(page)
WebCrawlFinish(c, ok) ==
  /\ web[c].pc = "page"
  /\ ReleaseTab(c)
  /\ web' = [web EXCEPT ![c].pc = "returned", ![c].success = ok,
                        ![c].released = Append(@, web[c].page)]

\* step A of the pool, with the crawl calls whose getTab() it settles
WebPool(A) ==
  /\ A
  /\ web' = WebSettled(web, proc')
  /\ UNCHANGED cvars

WebNext ==
  \/ (\E c \in Callers : \E url \in WebUrls : WebCrawlCall(c, url)) /\ UNCHANGED cvars
  \/ WebPool(LaunchOk)
  \/ WebPool(LaunchFail)
  \/ \E x \in Procs : WebPool(AfterInit(x))
  \/ \E x \in Procs : WebPool(PagesResolved(x))
  \/ \E x \in Procs : WebPool(NewPageResolved(x))
  \/ \E x \in Procs : WebPool(RegisterTab(x))
  \/ \E o \in Procs : \E p \in Polls : WebPool(IntervalTick(o, p))
  \/ \E x \in Procs : WebPool(WaitTimeout(x))
  \/ \E g \in 1..MaxLaunches : WebPool(HandleBrowserDisconnect(g))
  \/ WebPool(CloseStart)
  \/ WebPool(CloseFinish)
  \/ (\E c \in Callers : web[c].pc = "page" /\ Navigate(c)) /\ UNCHANGED <<cvars, web>>
  \/ (\E c \in Callers : \E ok \in BOOLEAN : WebCrawlFinish(c, ok)) /\ UNCHANGED cvars

WebSpec == SpiderInit /\ [][WebNext]_allvars

\* C34: WebCrawl.crawl always returns a result and pairs acquire with
\* release: for a url that does not parse it returns success = false without
\* calling getTab or releaseTab and leaves the pool as it is; a call that got
\* a page calls releaseTab once, on that page, when it returns, and not
\* before; a call whose getTab() failed returns success = false and calls
\* releaseTab never
C34_AcquireReleasePaired ==
  /\ [](\A c \in Callers :
          /\ web[c].pc = "returned" =>
               /\ proc[c].pc = "idle"
               /\ ~Parses(web[c].url) =>
                    (~web[c].success /\ web[c].page = 0 /\ web[c].released = <<>>)
               /\ web[c].page # 0 => web[c].released = <<web[c].page>>
               /\ web[c].page = 0 => (web[c].released = <<>> /\ ~web[c].success)
          /\ web[c].pc = "getTab" => (web[c].page = 0 /\ web[c].released = <<>>)
          /\ web[c].pc = "page" =>
               /\ proc[c].pc = "holding"
               /\ proc[c].held = web[c].page
               /\ web[c].released = <<>>)
  /\ [][\A c \in Callers :
          (web'[c] # web[c] /\ web[c].pc \in {"idle", "returned"} /\ ~Parses(web'[c].url))
            => UNCHANGED vars]_allvars

\* one call has returned success after releasing the page it got, another
\* has returned from a url that does not parse
C34_Witness ==
  \E c, d \in Callers :
    /\ web[c].pc = "returned" /\ web[c].success
    /\ web[c].page # 0 /\ web[c].released = <<web[c].page>>
    /\ web[d].pc = "returned" /\ web[d].url = UrlBad

\* puppeteer.launch() rejects in this step
LaunchFails == inFlight' = inFlight - 1 /\ alive' = alive

\* C35: when the launch of the engine fails, every acquire() that awaits the
\* initialization fails with an error, the pool is left uninitialized with
\* no initialization marked in flight and an empty session table, and a
\* later acquire() starts a new launch
C35_LaunchFailureResets ==
  /\ [][LaunchFails =>
          /\ \A x \in Awaiters : proc'[x].pc \in {"idle", "free"}
          /\ browser' = 0
          /\ ~isInitializing'
          /\ tabs' = <<>>]_vars
  /\ [][\A c \in Callers :
          (browser = 0 /\ ~isInitializing /\ proc[c].pc = "idle" /\ proc'[c].pc # "idle")
            => (proc'[c].pc = "awaitInit" /\ isInitializing'
                /\ launched' = launched + 1 /\ inFlight' = inFlight + 1)]_vars

====
